---- MODULE Spec2Model ----
(***************************************************************************)
(* Model of matrixrs (src/src/matrixrs/lib.rs): the generic dense matrix   *)
(* Matrix<T>, its constructors, accessors, structural operations and       *)
(* operator overloads.                                                     *)
(*                                                                         *)
(* A matrix is the record [m, n, data] of the struct; data is a sequence   *)
(* of rows.  The code indexes from 0, sequences from 1, so data[r][c] of   *)
(* the code is data[r+1][c+1] here.  A vector index out of range is a      *)
(* fatal failure "oob", a failed assert! is a fatal failure "assert";      *)
(* every operation returns a result record that carries the failure.      *)
(* The element type T is f64, the type of zeros, ones and identity.  An     *)
(* element is a finite number, an infinity or NaN; the finite numbers that *)
(* occur are small integers, which f64 represents and adds and multiplies  *)
(* without rounding.  The two zeros of f64, which == does not tell apart,  *)
(* are one value.                                                          *)
(***************************************************************************)
EXTENDS Integers, Sequences, FiniteSets, TLC

\* Largest row / column count handed to a constructor.
MaxDim == 2
\* Longest chain of matrix-returning operations applied, one to the result of
\* the other, to a constructed matrix.
MaxSteps == 2

\* Row / column counts handed to a constructor: empty, single, largest.
Dims == {0, 1, MaxDim}
\* Indices tried by the accessors: valid ones, one past the end, and beyond.
Idx == Dims \cup {MaxDim + 1}

\* ---- elements: T = f64 ---------------------------------------------------
Fin(v) == [c |-> "fin", v |-> v]
\* s = 1: +infinity, s = -1: -infinity
Inf(s) == [c |-> "inf", v |-> s]
NaN == [c |-> "nan", v |-> 0]
Elem == [c : {"fin", "inf", "nan"}, v : Int]
\* Zero::zero()
Zero == Fin(0)
Sign(x) == IF x.v > 0 THEN 1 ELSE IF x.v < 0 THEN 0 - 1 ELSE 0
\* T's +
ElemAdd(x, y) ==
    IF x.c = "nan" \/ y.c = "nan" THEN NaN
    ELSE IF x.c = "inf" /\ y.c = "inf" THEN (IF x.v = y.v THEN x ELSE NaN)
    ELSE IF x.c = "inf" THEN x
    ELSE IF y.c = "inf" THEN y
    ELSE Fin(x.v + y.v)
\* T's unary -
ElemNeg(x) == IF x.c = "nan" THEN NaN ELSE [c |-> x.c, v |-> 0 - x.v]
\* T's *
ElemMul(x, y) ==
    IF x.c = "nan" \/ y.c = "nan" THEN NaN
    ELSE IF x.c = "fin" /\ y.c = "fin" THEN Fin(x.v * y.v)
    ELSE IF Sign(x) = 0 \/ Sign(y) = 0 THEN NaN
    ELSE Inf(Sign(x) * Sign(y))
\* T's ==
ElemEq(x, y) == x.c # "nan" /\ y.c # "nan" /\ x = y

\* Fill values of from_T.
Vals == {Fin(0 - 1), Inf(1), NaN}

NoMat == [m |-> 0, n |-> 0, data |-> <<>>]

\* ---- results ------------------------------------------------------------
\* an element (or a failure) returned by at, a closure, dot, sum
OkE(v) == [ok |-> TRUE, err |-> "none", elem |-> v]
FailE(e) == [ok |-> FALSE, err |-> e, elem |-> Zero]
\* the outcome of an operation, of whatever kind
Res(k, e, M, v, f, calls, reads) ==
    [kind |-> k, err |-> e, mat |-> M, elem |-> v, flag |-> f,
     calls |-> calls, reads |-> reads]
MatRes(M, calls) == Res("matrix", "none", M, Zero, FALSE, calls, 0)
ElemRes(v) == Res("elem", "none", NoMat, v, FALSE, <<>>, 0)
BoolRes(f, reads) == Res("bool", "none", NoMat, Zero, f, <<>>, reads)
SizeRes(mm, nn) == Res("size", "none", [m |-> mm, n |-> nn, data |-> <<>>], Zero, FALSE, <<>>, 0)
CallsRes(calls) == Res("unit", "none", NoMat, Zero, FALSE, calls, 0)
FailRes(e, calls) == Res("fail", e, NoMat, Zero, FALSE, calls, 0)
OfElem(r) == IF r.ok THEN ElemRes(r.elem) ELSE FailRes(r.err, <<>>)

\* ---- impl<T> Matrix<T> --------------------------------------------------
\* faulty variant of vec_from_fn: fills the row from its last column to its
\* first, so the closure is called with j decreasing
RECURSIVE vec_from_fn_reversed(_, _, _, _, _)
vec_from_fn_reversed(n, i, func, j, acc) ==
    IF j >= n THEN acc
    ELSE LET r == func[<<i, n - 1 - j>>]
             calls == Append(acc.calls, <<i, n - 1 - j>>)
         IN  IF r.ok
             THEN vec_from_fn_reversed(n, i, func, j + 1,
                      [ok |-> TRUE, err |-> "none",
                       row |-> <<r.elem>> \o acc.row, calls |-> calls])
             ELSE [ok |-> FALSE, err |-> r.err, row |-> acc.row, calls |-> calls]

\* vec::from_fn(n, |j| func(i, j)): the cells of row i, j increasing
RECURSIVE vec_from_fn(_, _, _, _, _)
vec_from_fn(n, i, func, j, acc) ==
    IF j >= n THEN acc
    ELSE LET r == func[<<i, j>>]
             calls == Append(acc.calls, <<i, j>>)
         IN  IF r.ok
             THEN vec_from_fn(n, i, func, j + 1,
                      [ok |-> TRUE, err |-> "none",
                       row |-> Append(acc.row, r.elem), calls |-> calls])
             ELSE [ok |-> FALSE, err |-> r.err, row |-> acc.row, calls |-> calls]

\* for i in range(0, m) { data.push(vec::from_fn(n, ...)) }
RECURSIVE from_fn_rows(_, _, _, _, _, _)
from_fn_rows(m, n, func, i, data, calls) ==
    IF i >= m THEN MatRes([m |-> m, n |-> n, data |-> data], calls)
    ELSE LET r == vec_from_fn(n, i, func, 0,
                      [ok |-> TRUE, err |-> "none", row |-> <<>>, calls |-> calls])
         IN  IF r.ok
             THEN from_fn_rows(m, n, func, i + 1, Append(data, r.row), r.calls)
             ELSE FailRes(r.err, r.calls)

\* func is the closure, as a function from <<i, j>> to an element result
from_fn(m, n, func) == from_fn_rows(m, n, func, 0, <<>>, <<>>)

size(self) == <<self.m, self.n>>

\* ---- impl<T:Clone> Matrix<T> --------------------------------------------
\* vec::from_elem(n, val)
from_elem(n, val) == [j \in 1..n |-> val]

RECURSIVE from_T_rows(_, _, _, _, _)
from_T_rows(m, n, val, i, data) ==
    IF i >= m THEN [m |-> m, n |-> n, data |-> data]
    ELSE from_T_rows(m, n, val, i + 1, Append(data, from_elem(n, val)))

from_T(m, n, val) == MatRes(from_T_rows(m, n, val, 0, <<>>), <<>>)

\* faulty variant of at: an index out of range yields a default element
at_defaults(self, r, c) ==
    IF r >= Len(self.data) THEN OkE(Zero)
    ELSE IF c >= Len(self.data[r + 1]) THEN OkE(Zero)
    ELSE OkE(self.data[r + 1][c + 1])

\* self.data[row][col].clone(): both index operations are bounds-checked
at(self, r, c) ==
    IF r >= Len(self.data) THEN FailE("oob")
    ELSE IF c >= Len(self.data[r + 1]) THEN FailE("oob")
    ELSE OkE(self.data[r + 1][c + 1])

\* faulty variant of row: declares the source's row count for the one row
row_keeps_m(self, r) ==
    IF r >= Len(self.data) THEN FailRes("oob", <<>>)
    ELSE MatRes([m |-> self.m, n |-> self.n, data |-> <<self.data[r + 1]>>], <<>>)

row(self, r) ==
    IF r >= Len(self.data) THEN FailRes("oob", <<>>)
    ELSE MatRes([m |-> 1, n |-> self.n, data |-> <<self.data[r + 1]>>], <<>>)

RECURSIVE col_rows(_, _, _, _)
col_rows(self, c, i, acc) ==
    IF i >= self.m THEN MatRes([m |-> self.m, n |-> 1, data |-> acc], <<>>)
    ELSE LET r == at(self, i, c)
         IN  IF r.ok THEN col_rows(self, c, i + 1, Append(acc, <<r.elem>>))
             ELSE FailRes(r.err, <<>>)

col(self, c) == col_rows(self, c, 0, <<>>)

augment(self, mat) ==
    from_fn(self.m, self.n + mat.n,
        [p \in (0..(self.m - 1)) \X (0..(self.n + mat.n - 1)) |->
            IF p[2] < self.n THEN at(self, p[1], p[2])
            ELSE at(mat, p[1], p[2] - self.n)])

\* faulty variant of transpose: reads (i, j) instead of (j, i)
transpose_unswapped(self) ==
    from_fn(self.n, self.m,
        [p \in (0..(self.n - 1)) \X (0..(self.m - 1)) |-> at(self, p[1], p[2])])

transpose(self) ==
    from_fn(self.n, self.m,
        [p \in (0..(self.n - 1)) \X (0..(self.m - 1)) |-> at(self, p[2], p[1])])

\* the coordinates applier is called with, in call order
RECURSIVE apply_from(_, _, _, _)
apply_from(self, i, j, calls) ==
    IF i >= self.m THEN calls
    ELSE IF j >= self.n THEN apply_from(self, i + 1, 0, calls)
    ELSE apply_from(self, i, j + 1, Append(calls, <<i, j>>))

apply(self) == apply_from(self, 0, 0, <<>>)

\* mapper is the closure, as a function from an element to an element
map(self, mapper) ==
    from_fn(self.m, self.n,
        [p \in (0..(self.m - 1)) \X (0..(self.n - 1)) |->
            LET r == at(self, p[1], p[2])
            IN  IF r.ok THEN OkE(mapper[r.elem]) ELSE r])

\* ---- impl<T:Num+Clone> Matrix<T> ----------------------------------------
\* self.apply(|i,j| { acc = acc + self.at(i,j) }), calls = apply(self)
RECURSIVE sum_from(_, _, _, _)
sum_from(self, calls, k, acc) ==
    IF k > Len(calls) THEN OkE(acc)
    ELSE LET r == at(self, calls[k][1], calls[k][2])
         IN  IF r.ok THEN sum_from(self, calls, k + 1, ElemAdd(acc, r.elem)) ELSE r

sum(self) == sum_from(self, apply(self), 1, Zero)

RECURSIVE dot_from(_, _, _, _)
dot_from(self, other, i, acc) ==
    IF i >= self.n THEN OkE(acc)
    ELSE LET x == at(self, 0, i)
             y == at(other, i, 0)
         IN  IF ~x.ok THEN x
             ELSE IF ~y.ok THEN y
             ELSE dot_from(self, other, i + 1,
                           ElemAdd(acc, ElemMul(x.elem, y.elem)))

\* faulty variant of dot: the loop starts at 1
dot_skips_first(self, other) == dot_from(self, other, 1, Zero)

dot(self, other) == dot_from(self, other, 0, Zero)

\* ---- impl Eq ------------------------------------------------------------
\* faulty variant of eq_from: the last comparison overwrites equal
RECURSIVE eq_from_last_cell(_, _, _, _, _, _)
eq_from_last_cell(self, rhs, calls, k, equal, reads) ==
    IF k > Len(calls) THEN BoolRes(equal, reads)
    ELSE LET x == at(self, calls[k][1], calls[k][2])
             y == at(rhs, calls[k][1], calls[k][2])
         IN  IF ~x.ok THEN FailRes(x.err, <<>>)
             ELSE IF ~y.ok THEN FailRes(y.err, <<>>)
             ELSE eq_from_last_cell(self, rhs, calls, k + 1,
                                    ElemEq(x.elem, y.elem), reads + 2)

\* the body of eq's applier, over calls = apply(self); reads counts the
\* elements read by at
RECURSIVE eq_from(_, _, _, _, _, _)
eq_from(self, rhs, calls, k, equal, reads) ==
    IF k > Len(calls) THEN BoolRes(equal, reads)
    ELSE LET x == at(self, calls[k][1], calls[k][2])
             y == at(rhs, calls[k][1], calls[k][2])
         IN  IF ~x.ok THEN FailRes(x.err, <<>>)
             ELSE IF ~y.ok THEN FailRes(y.err, <<>>)
             ELSE eq_from(self, rhs, calls, k + 1,
                          IF ElemEq(x.elem, y.elem) THEN equal ELSE FALSE,
                          reads + 2)

eq(self, rhs) ==
    IF size(self) = size(rhs)
    THEN eq_from(self, rhs, apply(self), 1, TRUE, 0)
    ELSE BoolRes(FALSE, 0)

\* ---- impl Add, Neg, Sub, Mul --------------------------------------------
\* faulty variant of add: the assert! is missing
add_unchecked(self, rhs) ==
    from_fn(self.m, self.n,
        [p \in (0..(self.m - 1)) \X (0..(self.n - 1)) |->
            LET x == at(self, p[1], p[2])
                y == at(rhs, p[1], p[2])
            IN  IF ~x.ok THEN x
                ELSE IF ~y.ok THEN y
                ELSE OkE(ElemAdd(x.elem, y.elem))])

add(self, rhs) ==
    IF size(self) # size(rhs) THEN FailRes("assert", <<>>)
    ELSE from_fn(self.m, self.n,
            [p \in (0..(self.m - 1)) \X (0..(self.n - 1)) |->
                LET x == at(self, p[1], p[2])
                    y == at(rhs, p[1], p[2])
                IN  IF ~x.ok THEN x
                    ELSE IF ~y.ok THEN y
                    ELSE OkE(ElemAdd(x.elem, y.elem))])

neg(self) == map(self, [x \in Elem |-> ElemNeg(x)])

sub(self, rhs) ==
    LET nr == neg(rhs)
    IN  IF nr.kind = "fail" THEN nr ELSE add(self, nr.mat)

mul(self, rhs) ==
    IF self.n # rhs.m THEN FailRes("assert", <<>>)
    ELSE from_fn(self.m, rhs.n,
            [p \in (0..(self.m - 1)) \X (0..(rhs.n - 1)) |->
                LET r == row(self, p[1])
                    c == col(rhs, p[2])
                IN  IF r.kind = "fail" THEN FailE(r.err)
                    ELSE IF c.kind = "fail" THEN FailE(c.err)
                    ELSE dot(r.mat, c.mat)])

\* ---- impl Index, Not, BitOr ---------------------------------------------
index(self, rhs) == at(self, rhs[1], rhs[2])

not(self) == transpose(self)

bitor(self, rhs) == augment(self, rhs)

\* ---- convenience constructors -------------------------------------------
zeros(m, n) == from_T(m, n, Fin(0))

ones(m, n) == from_T(m, n, Fin(1))

identity(dim) ==
    from_fn(dim, dim,
        [p \in (0..(dim - 1)) \X (0..(dim - 1)) |->
            OkE(IF p[1] = p[2] THEN Fin(1) ELSE Fin(0))])

\* ---- inputs -------------------------------------------------------------
\* the generators handed to from_fn: the row-major and the column-major
\* number of the cell, modulo 3 (they agree on the diagonal)
Gens == {1, 2}
GenVal(k, i, j) ==
    Fin(IF k = 1 THEN (i * (MaxDim + 1) + j) % 3
        ELSE (j * (MaxDim + 1) + i) % 3)
GenFn(k, m, n) ==
    [p \in (0..(m - 1)) \X (0..(n - 1)) |-> OkE(GenVal(k, p[1], p[2]))]
\* the closures handed to map
Mappers == {1, 2}
MapVal(k, x) == IF k = 1 THEN ElemAdd(x, Fin(1)) ELSE ElemMul(Fin(2), x)
\* the second operand of a binary operation: a matrix built by from_fn, or
\* (where the operation is written) the held matrix itself
Fresh == {from_fn(m, n, GenFn(1, m, n)).mat : m \in Dims, n \in Dims}

\* ---- state --------------------------------------------------------------
VARIABLES
    a,      \* the matrix the caller holds
    steps,  \* number of operations that led from a constructor to a
    last    \* the last call: operation, operands, arguments and outcome
vars == <<a, steps, last>>

Call(op, lhs, rhs, i, j, k, val, res) ==
    [op |-> op, lhs |-> lhs, rhs |-> rhs, i |-> i, j |-> j, k |-> k,
     val |-> val, res |-> res]

\* no call is outstanding: the caller has released the last returned value
NoCall == Call("none", NoMat, NoMat, 0, 0, 0, Zero, CallsRes(<<>>))
Idle == last = NoCall

\* a constructor returns the matrix the caller holds from now on
Construct(op, i, j, k, val, res) ==
    /\ Idle
    /\ a' = res.mat
    /\ steps' = 0
    /\ last' = Call(op, NoMat, NoMat, i, j, k, val, res)

\* an operation that returns a matrix: the caller keeps the result; a fatal
\* failure leaves the caller with what it had
Transform(op, lhs, rhs, i, j, k, res) ==
    /\ Idle
    /\ steps < MaxSteps
    /\ IF res.kind = "matrix"
       THEN a' = res.mat /\ steps' = steps + 1
       ELSE UNCHANGED <<a, steps>>
    /\ last' = Call(op, lhs, rhs, i, j, k, Zero, res)

\* an operation that returns no matrix
Query(op, lhs, rhs, i, j, res) ==
    /\ Idle
    /\ UNCHANGED <<a, steps>>
    /\ last' = Call(op, lhs, rhs, i, j, 0, Zero, res)

Init ==
    /\ a = zeros(0, 0).mat
    /\ steps = 0
    /\ last = Call("zeros", NoMat, NoMat, 0, 0, 0, Fin(0), zeros(0, 0))

FromFn == \E m \in Dims, n \in Dims, k \in Gens :
    Construct("from_fn", m, n, k, Zero, from_fn(m, n, GenFn(k, m, n)))
FromT == \E m \in Dims, n \in Dims, v \in Vals :
    Construct("from_T", m, n, 0, v, from_T(m, n, v))
Zeros == \E m \in Dims, n \in Dims :
    Construct("zeros", m, n, 0, Fin(0), zeros(m, n))
Ones == \E m \in Dims, n \in Dims :
    Construct("ones", m, n, 0, Fin(1), ones(m, n))
Identity == \E d \in Dims : Construct("identity", d, d, 0, Zero, identity(d))

Size == Query("size", a, NoMat, 0, 0, SizeRes(size(a)[1], size(a)[2]))
At == \E r \in Idx, c \in Idx : Query("at", a, NoMat, r, c, OfElem(at(a, r, c)))
Index == \E r \in Idx, c \in Idx :
    Query("index", a, NoMat, r, c, OfElem(index(a, <<r, c>>)))
Apply == Query("apply", a, NoMat, 0, 0, CallsRes(apply(a)))
Sum == Query("sum", a, NoMat, 0, 0, OfElem(sum(a)))
Eq == \E other \in Fresh \cup {a}, sw \in BOOLEAN :
    LET lhs == IF sw THEN other ELSE a
        rhs == IF sw THEN a ELSE other
    IN  Query("eq", lhs, rhs, 0, 0, eq(lhs, rhs))

Row == \E r \in Idx : Transform("row", a, NoMat, r, 0, 0, row(a, r))
Col == \E c \in Idx : Transform("col", a, NoMat, 0, c, 0, col(a, c))
Transpose == Transform("transpose", a, NoMat, 0, 0, 0, transpose(a))
Not == Transform("not", a, NoMat, 0, 0, 0, not(a))
Map == \E k \in Mappers :
    Transform("map", a, NoMat, 0, 0, k, map(a, [x \in Elem |-> MapVal(k, x)]))
Neg == Transform("neg", a, NoMat, 0, 0, 0, neg(a))
Augment == \E other \in Fresh \cup {a}, sw \in BOOLEAN :
    LET lhs == IF sw THEN other ELSE a
        rhs == IF sw THEN a ELSE other
    IN  Transform("augment", lhs, rhs, 0, 0, 0, augment(lhs, rhs))
BitOr == \E other \in Fresh \cup {a}, sw \in BOOLEAN :
    LET lhs == IF sw THEN other ELSE a
        rhs == IF sw THEN a ELSE other
    IN  Transform("bitor", lhs, rhs, 0, 0, 0, bitor(lhs, rhs))
Add == \E other \in Fresh \cup {a}, sw \in BOOLEAN :
    LET lhs == IF sw THEN other ELSE a
        rhs == IF sw THEN a ELSE other
    IN  Transform("add", lhs, rhs, 0, 0, 0, add(lhs, rhs))
Sub == \E other \in Fresh \cup {a}, sw \in BOOLEAN :
    LET lhs == IF sw THEN other ELSE a
        rhs == IF sw THEN a ELSE other
    IN  Transform("sub", lhs, rhs, 0, 0, 0, sub(lhs, rhs))
Mul == \E other \in Fresh \cup {a}, sw \in BOOLEAN :
    LET lhs == IF sw THEN other ELSE a
        rhs == IF sw THEN a ELSE other
    IN  Transform("mul", lhs, rhs, 0, 0, 0, mul(lhs, rhs))

\* the caller's scope releases the value the last call returned
Drop ==
    /\ ~Idle
    /\ last' = NoCall
    /\ UNCHANGED <<a, steps>>

Next ==
    \/ FromFn \/ FromT \/ Zeros \/ Ones \/ Identity
    \/ Size \/ At \/ Index \/ Apply \/ Sum \/ Eq
    \/ Row \/ Col \/ Transpose \/ Not \/ Map \/ Neg
    \/ Augment \/ BitOr \/ Add \/ Sub \/ Mul
    \/ Drop

Spec == Init /\ [][Next]_vars

\* ---- properties ---------------------------------------------------------
\* data has m rows of n elements each
WellShaped(M) ==
    /\ Len(M.data) = M.m
    /\ \A r \in 1..Len(M.data) : Len(M.data[r]) = M.n
\* the element of a well-shaped matrix at (i, j), counted from 0
Cell(M, i, j) == M.data[i + 1][j + 1]
Failed(e) == last.res.kind = "fail" /\ last.res.err = e
Returned == last.res.kind = "matrix"
\* M is mm x nn and its cell (i, j) is F(i, j)
IsMatrix(M, mm, nn, F(_, _)) ==
    /\ M.m = mm /\ M.n = nn /\ WellShaped(M)
    /\ \A i \in 0..(mm - 1), j \in 0..(nn - 1) : Cell(M, i, j) = F(i, j)
\* the matrices are equal under ==
Same(x, y) == eq(x, y).kind = "bool" /\ eq(x, y).flag
\* no cell of M is NaN, the one element that is not == to itself
NoNaN(M) ==
    \A i \in 0..(M.m - 1), j \in 0..(M.n - 1) : Cell(M, i, j).c # "nan"
\* every cell of M is finite: sums of such cells are computed exactly
AllFinite(M) ==
    \A i \in 0..(M.m - 1), j \in 0..(M.n - 1) : Cell(M, i, j).c = "fin"

\* C1: augment (and |) of operands with different row counts fails with an
\* assertion error and returns no matrix.
C1_AugmentRejectsRowMismatch ==
    (last.op \in {"augment", "bitor"} /\ last.lhs.m # last.rhs.m)
        => Failed("assert")

\* C2: col(c) fails out of bounds for every c >= n, whatever m is, and for
\* c < n returns the m x 1 matrix of column c.
C2_ColBounds ==
    last.op = "col" =>
        IF last.j >= last.lhs.n THEN Failed("oob")
        ELSE /\ Returned
             /\ IsMatrix(last.res.mat, last.lhs.m, 1,
                         LAMBDA i, j : Cell(last.lhs, i, last.j))

\* C3: whenever A.augment(B) returns, its column j equals column j of A for
\* j < A.n and column j - A.n of B otherwise, in shape and in every cell.
C3_AugmentColumns ==
    (last.op = "augment" /\ Returned) =>
        \A j \in 0..(last.lhs.n + last.rhs.n - 1) :
            LET x == col(last.res.mat, j)
                y == IF j < last.lhs.n THEN col(last.lhs, j)
                     ELSE col(last.rhs, j - last.lhs.n)
            IN  /\ x.kind = "matrix" /\ y.kind = "matrix"
                /\ Same(x.mat, y.mat)

\* C4: every matrix a constructor or an operation returns, and so every matrix
\* the caller holds after any chain of them, has exactly m rows of exactly n
\* elements, (m, n) being what size() reports.
C4_ShapeInvariant ==
    /\ WellShaped(a)
    /\ Len(a.data) = size(a)[1]
    /\ Returned =>
        /\ WellShaped(last.res.mat)
        /\ \A r \in 1..size(last.res.mat)[1] :
               Len(last.res.mat.data[r]) = size(last.res.mat)[2]
\* row, applied to the result of an augment, has returned
C4_Witness ==
    /\ last.op = "row" /\ Returned /\ steps = 2
    /\ last.lhs.n > MaxDim /\ last.lhs.m = 2
    /\ a = last.res.mat

\* sum over t in [0, t) of A(i, t) * B(t, j), from the additive identity
RECURSIVE DotSpec(_, _, _, _, _)
DotSpec(A, B, i, j, t) ==
    IF t = 0 THEN Zero
    ELSE ElemAdd(DotSpec(A, B, i, j, t - 1),
                 ElemMul(Cell(A, i, t - 1), Cell(B, t - 1, j)))

\* C5: A * B fails with an assertion violation exactly when A.n # B.m;
\* otherwise, zero dimensions included, it returns the A.m x B.n matrix whose
\* cell (i, j) is the sum over t of A(i, t) * B(t, j).
C5_Mul ==
    last.op = "mul" =>
        IF last.lhs.n # last.rhs.m THEN Failed("assert")
        ELSE /\ Returned
             /\ IsMatrix(last.res.mat, last.lhs.m, last.rhs.n,
                         LAMBDA i, j : DotSpec(last.lhs, last.rhs, i, j, last.lhs.n))
C5_Witness ==
    /\ last.op = "mul" /\ Returned
    /\ last.lhs.m = 2 /\ last.lhs.n = 0 /\ last.rhs.m = 0 /\ last.rhs.n = 2
    /\ last.res.mat.data = <<<<Zero, Zero>>, <<Zero, Zero>>>>

\* C6: at(r, c) and matrix[(r, c)] have the same outcome: out of bounds when
\* r >= m or c >= n, the stored element otherwise.
C6_AtIndexBounds ==
    last.op \in {"at", "index"} =>
        IF last.i >= last.lhs.m \/ last.j >= last.lhs.n THEN Failed("oob")
        ELSE /\ last.res.kind = "elem"
             /\ last.res.elem = Cell(last.lhs, last.i, last.j)
C6_Witness ==
    /\ last.op = "index" /\ Failed("oob")
    /\ last.lhs.m > 0 /\ last.i = last.lhs.m /\ last.j < last.lhs.n

\* the part of C7 that does not depend on the element type: A + B and A - B
\* fail with an assertion violation exactly when the shapes differ; otherwise
\* A + B is the cell-wise sum and A - B is A + (-B)
AddSubCells ==
    IF size(last.lhs) # size(last.rhs) THEN Failed("assert")
    ELSE /\ Returned
         /\ IsMatrix(last.res.mat, last.lhs.m, last.lhs.n,
                LAMBDA i, j :
                    IF last.op = "add"
                    THEN ElemAdd(Cell(last.lhs, i, j), Cell(last.rhs, i, j))
                    ELSE ElemAdd(Cell(last.lhs, i, j), ElemNeg(Cell(last.rhs, i, j))))
         /\ last.op = "sub" =>
                last.res.mat = add(last.lhs, neg(last.rhs).mat).mat

\* C7, as claimed: A + B and A - B fail with an assertion violation exactly
\* when the shapes differ; otherwise A + B is the cell-wise sum, A - B is
\* A + (-B), (A + B) + (-B) == A and A + B == B + A.
C7_AddSub ==
    last.op \in {"add", "sub"} =>
        /\ AddSubCells
        /\ (last.op = "add" /\ Returned) =>
               /\ Same(add(last.res.mat, neg(last.rhs).mat).mat, last.lhs)
               /\ Same(last.res.mat, add(last.rhs, last.lhs).mat)

\* C7, amended: the shape assertion, the cell-wise sum and A - B = A + (-B) as
\* claimed; A + B and B + A hold the same values, and A + B == B + A is true
\* exactly when no cell of the sum is NaN; (A + B) + (-B) == A is true when
\* every cell of A and B is finite and the sums are exact.
C7_AddSubExact ==
    last.op \in {"add", "sub"} =>
        /\ AddSubCells
        /\ (last.op = "add" /\ Returned) =>
               /\ last.res.mat = add(last.rhs, last.lhs).mat
               /\ Same(last.res.mat, add(last.rhs, last.lhs).mat)
                      <=> NoNaN(last.res.mat)
               /\ (AllFinite(last.lhs) /\ AllFinite(last.rhs)) =>
                      Same(add(last.res.mat, neg(last.rhs).mat).mat, last.lhs)
C7_Witness ==
    /\ last.op = "add" /\ Returned
    /\ size(last.lhs) = <<2, 2>>
    /\ AllFinite(last.lhs) /\ AllFinite(last.rhs) /\ last.lhs # last.rhs

\* the part of C8 that does not depend on the element type: transpose (and !)
\* never fails and returns the n x m matrix whose cell (i, j) is the source's
\* cell (j, i); transposing twice gives back the source's shape and the value
\* of every cell
TransposeCells ==
    /\ Returned
    /\ IsMatrix(last.res.mat, last.lhs.n, last.lhs.m,
                LAMBDA i, j : Cell(last.lhs, j, i))
    /\ transpose(last.res.mat).kind = "matrix"
    /\ transpose(last.res.mat).mat = last.lhs

\* C8, as claimed: transpose (and !) never fails and returns the n x m matrix
\* whose cell (i, j) is the source's cell (j, i), and
\* A.transpose().transpose() == A.
C8_Transpose ==
    last.op \in {"transpose", "not"} =>
        /\ TransposeCells
        /\ Same(transpose(last.res.mat).mat, last.lhs)

\* C8, amended: as claimed, except that A.transpose().transpose() == A is
\* true exactly when no cell of A is NaN; shape and cell values come back for
\* every A.
C8_TransposeRoundTrip ==
    last.op \in {"transpose", "not"} =>
        /\ TransposeCells
        /\ Same(transpose(last.res.mat).mat, last.lhs) <=> NoNaN(last.lhs)
C8_Witness ==
    /\ last.op = "not" /\ Returned
    /\ last.lhs.m = 0 /\ last.lhs.n = 2 /\ last.res.mat.m = 2

\* C9: A == B never fails and is true exactly when the shapes are the same and
\* every pair of cells is equal under the element type's ==; when the shapes
\* differ no element is read.
C9_Eq ==
    last.op = "eq" =>
        /\ last.res.kind = "bool"
        /\ last.res.flag <=>
            /\ size(last.lhs) = size(last.rhs)
            /\ \A i \in 0..(last.lhs.m - 1), j \in 0..(last.lhs.n - 1) :
                   ElemEq(Cell(last.lhs, i, j), Cell(last.rhs, i, j))
        /\ size(last.lhs) # size(last.rhs) => last.res.reads = 0
C9_Witness ==
    /\ last.op = "eq" /\ last.res.kind = "bool" /\ ~last.res.flag
    /\ size(last.lhs) = <<2, 2>> /\ size(last.rhs) = <<2, 2>>
    /\ ~ElemEq(Cell(last.lhs, 0, 1), Cell(last.rhs, 0, 1))
    /\ ElemEq(Cell(last.lhs, 1, 1), Cell(last.rhs, 1, 1))

\* C10: from_fn(m, n, g) calls g exactly once per coordinate of
\* [0, m) x [0, n), in row-major order, and returns the m x n matrix whose
\* element at (i, j) is g(i, j).
C10_FromFn ==
    last.op = "from_fn" =>
        /\ Returned
        /\ Len(last.res.calls) = last.i * last.j
        /\ \A i \in 0..(last.i - 1), j \in 0..(last.j - 1) :
               /\ last.res.calls[i * last.j + j + 1] = <<i, j>>
               /\ at(last.res.mat, i, j) = OkE(GenVal(last.k, i, j))
        /\ size(last.res.mat) = <<last.i, last.j>>
C10_Witness ==
    /\ last.op = "from_fn" /\ Returned
    /\ last.i = 2 /\ last.j = 2 /\ last.k = 2
    /\ Len(last.res.calls) = 4
====
